---- MODULE Spec2Model ----
(***************************************************************************)
(* Model of the SCTP association ASCONF / authentication code of           *)
(* SCTPAssociation (sendAsconf, retransmitAsconf, sendAsconfAck,           *)
(* createAsconfAckChunk, createAuthChunk, compareRandom,                   *)
(* calculateAssocSharedKey).                                               *)
(*                                                                         *)
(* Spec     : one association issuing ASCONF requests.                     *)
(* SpecKey  : two endpoints deriving the association shared key from the   *)
(*            exchanged key vectors.                                       *)
(***************************************************************************)
EXTENDS Integers, Sequences, FiniteSets, TLC

\* ------------------------------------------------------------------------
\* Bounds of the model
\* ------------------------------------------------------------------------
MaxCorrId == 3
MaxSn == 1
MaxKeyLen == 2
\* the simulation clock is followed up to this time (seconds)
MaxTime == 300
MaxByte == 1
KeyVectorStorage == 4

\* ------------------------------------------------------------------------
\* Program constants
\* ------------------------------------------------------------------------
ASCONF == 193
ASCONF_ACK == 128
AUTH == 15
ADD_IP_ADDRESS == 49153
DELETE_IP_ADDRESS == 49154
SET_PRIMARY_ADDRESS == 49156
SCTP_COMMON_HEADER == 12
SCTP_ADD_IP_CHUNK_LENGTH == 8
SCTP_ADD_IP_PARAMETER_LENGTH == 8
SCTP_AUTH_CHUNK_LENGTH == 8
SHA_LENGTH == 20
UINT16 == 65536

NULL == "NULL"

VTags == {7}

\* ------------------------------------------------------------------------
\* Addresses
\* ------------------------------------------------------------------------
IPvXAddress(ip, v6, level) == [ip |-> ip, v6 |-> v6, level |-> level]

Wildcard == IPvXAddress("0.0.0.0", FALSE, 0)

Private4 == IPvXAddress("10.0.0.1", FALSE, 3)
Global6 == IPvXAddress("2001:db8::1", TRUE, 4)
PeerGlobal4 == IPvXAddress("198.51.100.1", FALSE, 4)
PeerPrivate4 == IPvXAddress("10.0.0.2", FALSE, 3)

AlternateRemoteAddr == IPvXAddress("198.51.100.2", FALSE, 4)

Config(l, r, n, a, pa, add) ==
    [localAddr |-> l, remoteAddr |-> r, natFriendly |-> n, auth |-> a,
     peerAuth |-> pa, addAddress |-> add]

\* the configurations of the association that are explored: NAT mode on,
\* each of its three conditions failing alone, every combination of the two
\* authentication flags, IPv4 and IPv6 addresses
Configs ==
    { Config(Private4, PeerGlobal4, TRUE, TRUE, TRUE, "10.0.0.9"),
      Config(Private4, PeerGlobal4, FALSE, TRUE, FALSE, "fd00::9"),
      Config(Private4, PeerPrivate4, TRUE, FALSE, TRUE, "10.0.0.9"),
      Config(Global6, PeerGlobal4, TRUE, FALSE, FALSE, "10.0.0.9") }

getLevel(addr) == addr.level

isIPv6(addr) == addr.v6

resolve(name) ==
    IF name = "fd00::9" THEN IPvXAddress("fd00::9", TRUE, 3)
    ELSE IPvXAddress(name, FALSE, 3)

getNextAddress(addr) == AlternateRemoteAddr

\* ------------------------------------------------------------------------
\* C strings: sequences of one-character strings
\* ------------------------------------------------------------------------
Digits == {"0", "1", "2", "3", "4", "5", "6", "7", "8", "9"}

isdigit(c) == c \in Digits

DigitVal(c) ==
    CASE c = "0" -> 0 [] c = "1" -> 1 [] c = "2" -> 2 [] c = "3" -> 3 [] c = "4" -> 4
      [] c = "5" -> 5 [] c = "6" -> 6 [] c = "7" -> 7 [] c = "8" -> 8 [] c = "9" -> 9

\* atoi: skips leading blanks, takes an optional sign, then converts the
\* longest run of decimal digits; 0 when there is none.
atoi(s) ==
    LET n == Len(s)
        start == CHOOSE i \in 1..(n + 1) :
                    /\ \A j \in 1..(i - 1) : s[j] = " "
                    /\ (i = n + 1 \/ s[i] # " ")
        signed == start <= n /\ s[start] \in {"-", "+"}
        first == IF signed THEN start + 1 ELSE start
        last == CHOOSE k \in (first - 1)..n :
                    /\ \A j \in first..k : isdigit(s[j])
                    /\ (k = n \/ ~isdigit(s[k + 1]))
        val[i \in (first - 1)..n] ==
            IF i < first THEN 0 ELSE val[i - 1] * 10 + DigitVal(s[i])
        magnitude == val[last]
    IN  IF signed /\ s[start] = "-" THEN 0 - magnitude ELSE magnitude

\* strtok(str, delim), called until it returns NULL: the successive non-empty
\* runs of characters other than the delimiter
strtok(s, delim) ==
    LET n == Len(s)
        starts == { i \in 1..n : s[i] # delim /\ (i = 1 \/ s[i - 1] = delim) }
        endOf(i) == CHOOSE k \in i..n :
                        /\ \A j \in i..k : s[j] # delim
                        /\ (k = n \/ s[k + 1] = delim)
        nth(k) == CHOOSE i \in starts : Cardinality({ j \in starts : j < i }) = k - 1
    IN  [k \in 1..Cardinality(starts) |-> SubSeq(s, nth(k), endOf(nth(k)))]

\* ------------------------------------------------------------------------
\* Request strings handed to sendAsconf
\* ------------------------------------------------------------------------
TokAdd == <<"4", "9", "1", "5", "3">>
TokDel == <<"4", "9", "1", "5", "4">>
TokPri == <<"4", "9", "1", "5", "6">>
TokOne == <<"1">>
TokEmpty == <<>>

\* the change-type lists the association is asked to send; Join makes the
\* comma-separated string sendAsconf is called with
RequestLists ==
    { <<>>,
      <<TokOne>>,
      <<TokAdd>>,
      <<TokDel>>,
      <<TokPri>>,
      <<TokAdd, TokDel>>,
      <<TokPri, TokAdd>>,
      <<TokDel, TokEmpty, TokOne, TokPri>>,
      <<TokEmpty, TokAdd, TokAdd>> }

RECURSIVE Join(_)
Join(req) ==
    IF req = <<>> THEN <<>>
    ELSE IF Len(req) = 1 THEN req[1]
    ELSE req[1] \o <<",">> \o Join(Tail(req))

RequestStrings == { Join(req) : req \in RequestLists }

\* ------------------------------------------------------------------------
\* State
\* ------------------------------------------------------------------------
VARIABLES
    asconfOutstanding,  \* state->asconfOutstanding
    asconfSn,           \* state->asconfSn
    corrIdNum,          \* state->corrIdNum
    asconfChunk,        \* state->asconfChunk: pointer into heap, or NULL
    localAddresses,     \* state->localAddresses
    auth,               \* state->auth
    peerAuth,           \* state->peerAuth
    localAddr,          \* SCTPAssociation::localAddr
    remoteAddr,         \* SCTPAssociation::remoteAddr
    peerVTag,           \* SCTPAssociation::peerVTag
    natFriendly,        \* sctpMain->par("natFriendly")
    addAddress,         \* sctpMain->par("addAddress")
    mainLocalAddrs,     \* addresses registered with sctpMain for this association
    heap,               \* the SCTPAsconfChunk objects alive: pointer -> object
    wire,               \* the chunk objects of the message the transport holds
    lastCall,           \* the last operation, its arguments and what it transmitted
    issued,             \* the correlation IDs carried by the parameters built so far
    numBuilt,           \* the number of ASCONF parameters built so far
    sentAsconf,         \* the ASCONF chunk transmitted by the last sendAsconf that sent
    keyVector,          \* state->keyVector, per endpoint
    peerKeyVector,      \* state->peerKeyVector, per endpoint
    sizeKeyVector,      \* state->sizeKeyVector, per endpoint
    sizePeerKeyVector,  \* state->sizePeerKeyVector, per endpoint
    sharedKey,          \* state->sharedKey, per endpoint
    peerFirst,          \* per endpoint: what compareRandom returned to the last
                        \* calculateAssocSharedKey ({} before the first)
    interfaceTable,     \* IInterfaceTable: the names of the interfaces that exist
    routingTable,       \* IRoutingTable: the routes added with addRoute
    ripInterfaces,      \* RIPRouting::ripInterfaces: interface -> metric, split horizon mode
    ripRoutes,          \* RIPRouting::ripRoutes: the RIP route entries
    now,                \* simTime(), in seconds
    fes                 \* firing times of the pending triggeredUpdateTimer events

asconfVars == <<asconfOutstanding, asconfSn, corrIdNum, asconfChunk, localAddresses,
                auth, peerAuth, localAddr, remoteAddr, peerVTag, natFriendly,
                addAddress, mainLocalAddrs, heap, wire, lastCall, issued, numBuilt, sentAsconf>>

keyVars == <<keyVector, peerKeyVector, sizeKeyVector, sizePeerKeyVector,
             sharedKey, peerFirst>>

routeVars == <<interfaceTable, routingTable>>

ripVars == <<ripInterfaces, ripRoutes, now, fes>>

\* what the ASCONF operations do not touch
otherVars == <<keyVars, routeVars, ripVars>>

vars == <<asconfOutstanding, asconfSn, corrIdNum, asconfChunk, localAddresses,
          auth, peerAuth, localAddr, remoteAddr, peerVTag, natFriendly,
          addAddress, mainLocalAddrs, heap, wire, lastCall, issued, numBuilt, sentAsconf,
          keyVector, peerKeyVector, sizeKeyVector, sizePeerKeyVector,
          sharedKey, peerFirst, interfaceTable, routingTable,
          ripInterfaces, ripRoutes, now, fes>>

configVars == <<auth, peerAuth, localAddr, remoteAddr, peerVTag, natFriendly, addAddress>>

\* ------------------------------------------------------------------------
\* Heap of SCTPAsconfChunk objects
\* ------------------------------------------------------------------------
Ref(p) == [ref |-> p]

IsRef(c) == "ref" \in DOMAIN c

\* Objects are addressed by who holds them: the chunk object made for the
\* message being sent, and the chunk object the association state keeps.
\* An object whose place is taken by a newer one is gone (its message was
\* consumed by the transport, or its only pointer was overwritten).
MsgChunk == "msgChunk"
StateChunk == "stateChunk"

Store(h, p, obj) == [q \in (DOMAIN h) \cup {p} |-> IF q = p THEN obj ELSE h[q]]

Free(h, ps) == [q \in (DOMAIN h) \ ps |-> h[q]]

MsgRefs(msg) == { msg.chunks[i].ref : i \in { j \in 1..Len(msg.chunks) : IsRef(msg.chunks[j]) } }

\* the objects still referenced after a handler returns: a chunk whose only
\* pointer was overwritten, or whose message the transport replaced, is gone
Retain(h, ps) == [q \in (DOMAIN h) \cap ps |-> h[q]]

\* what a read through a dangling pointer yields
Garbage ==
    [name |-> "garbage", chunkType |-> 0 - 1, serialNumber |-> 0 - 1,
     addressParam |-> IPvXAddress("garbage", FALSE, 0), peerVTag |-> 0 - 1,
     asconfParams |-> <<>>, bitLength |-> 0 - 1]

Load(h, p) == IF p \in DOMAIN h THEN h[p] ELSE Garbage

\* mutant of dup: no new object, the same pointer is handed back
dup_Alias(h, p, q) == [heap |-> h, ptr |-> p]

\* cObject::dup(): a new object with the same field values
dup(h, p, q) == [heap |-> Store(h, q, Load(h, p)), ptr |-> q]

\* what a message holds when its chunk pointers are followed
Deref(h, c) == IF IsRef(c) THEN Load(h, c.ref) ELSE c

Snapshot(h, msg) ==
    [name |-> msg.name,
     chunks |-> [i \in 1..Len(msg.chunks) |-> Deref(h, msg.chunks[i])],
     dest |-> msg.dest]

Call(op, args, sent, ret) ==
    [op |-> op, args |-> args, sent |-> sent, ret |-> ret]

NoArgs == <<>>

NoRet == "void"

\* ------------------------------------------------------------------------
\* Chunk builders
\* ------------------------------------------------------------------------
\* mutant of createAuthChunk: the digest placeholder is one byte short
createAuthChunk_ShortHmac ==
    [name |-> "AUTH", chunkType |-> AUTH, sharedKey |-> 0, hMacIdentifier |-> 1,
     hMacOk |-> TRUE, hmac |-> [i \in 0..(SHA_LENGTH - 2) |-> 0],
     bitLength |-> (SCTP_AUTH_CHUNK_LENGTH + SHA_LENGTH) * 8]

createAuthChunk ==
    [name |-> "AUTH", chunkType |-> AUTH, sharedKey |-> 0, hMacIdentifier |-> 1,
     hMacOk |-> TRUE, hmac |-> [i \in 0..(SHA_LENGTH - 1) |-> 0],
     bitLength |-> (SCTP_AUTH_CHUNK_LENGTH + SHA_LENGTH) * 8]

\* mutant of createAsconfAckChunk: the chunk carries the association's own
\* serial number
createAsconfAckChunk_OwnSn(serialNumber) ==
    [name |-> "ASCONF_ACK", chunkType |-> ASCONF_ACK, serialNumber |-> asconfSn,
     bitLength |-> SCTP_ADD_IP_CHUNK_LENGTH * 8]

createAsconfAckChunk(serialNumber) ==
    [name |-> "ASCONF_ACK", chunkType |-> ASCONF_ACK, serialNumber |-> serialNumber,
     bitLength |-> SCTP_ADD_IP_CHUNK_LENGTH * 8]

\* mutant of AuthPrefix: the peer's flag is not consulted
AuthPrefix_LocalOnly == IF auth THEN <<createAuthChunk>> ELSE <<>>

AuthPrefix == IF auth /\ peerAuth THEN <<createAuthChunk>> ELSE <<>>

\* the bytes an address adds to a chunk or parameter
AddrLen(addr) == IF isIPv6(addr) THEN 20 ELSE 8

AsconfParameter(name, type, corrId, addr) ==
    [name |-> name, parameterType |-> type, requestCorrelationId |-> corrId,
     addressParam |-> addr,
     bitLength |-> (SCTP_ADD_IP_PARAMETER_LENGTH + AddrLen(addr)) * 8]

\* mutant of AddIPParameter: the parameter type is left unset
AddIPParameter_Untyped(corrId, addr) == AsconfParameter("AddIP", 0, corrId, addr)

AddIPParameter(corrId, addr) == AsconfParameter("AddIP", ADD_IP_ADDRESS, corrId, addr)

\* mutant of DeleteIPParameter: the parameter is typed as a set-primary request
DeleteIPParameter_AsSetPrimary(corrId, addr) ==
    AsconfParameter("DeleteIP", SET_PRIMARY_ADDRESS, corrId, addr)

DeleteIPParameter(corrId, addr) == AsconfParameter("DeleteIP", DELETE_IP_ADDRESS, corrId, addr)

SetPrimaryIPParameter(corrId, addr) ==
    AsconfParameter("SetPrimary", SET_PRIMARY_ADDRESS, corrId, addr)

\* mutant of NextCorrId: the counter is not advanced
NextCorrId_Stuck(n) == n

\* ++state->corrIdNum (a uint32; MaxCorrId keeps it far from wrapping)
NextCorrId(n) == n + 1

\* mutant of TokenCase: a token of no known type still takes a correlation ID
TokenCase_CountsAll(token, acc, nat, remote) ==
    LET type == atoi(token)
        corrId == NextCorrId(acc.corrIdNum)
        added == resolve(addAddress)
        grow(param) ==
            [acc EXCEPT !.corrIdNum = corrId,
                        !.chunkLength = (acc.chunkLength + SCTP_ADD_IP_PARAMETER_LENGTH
                                         + AddrLen(param.addressParam)) % UINT16,
                        !.params = Append(acc.params, param)]
    IN  IF type = ADD_IP_ADDRESS THEN
            LET param == AddIPParameter(corrId, IF nat THEN Wildcard ELSE added)
                a == grow(param)
            IN  IF nat
                THEN [a EXCEPT !.mainLocalAddrs = acc.mainLocalAddrs \cup {added},
                               !.localAddresses = Append(acc.localAddresses, added),
                               !.targetAddr = IF remote THEN remoteAddr
                                              ELSE getNextAddress(remoteAddr)]
                ELSE a
        ELSE IF type = DELETE_IP_ADDRESS THEN
            grow(DeleteIPParameter(corrId, added))
        ELSE IF type = SET_PRIMARY_ADDRESS THEN
            grow(SetPrimaryIPParameter(corrId, IF nat THEN Wildcard ELSE added))
        ELSE [acc EXCEPT !.corrIdNum = corrId]

\* one pass of the switch in sendAsconf's token loop
TokenCase(token, acc, nat, remote) ==
    LET type == atoi(token)
        corrId == NextCorrId(acc.corrIdNum)
        added == resolve(addAddress)
        grow(param) ==
            [acc EXCEPT !.corrIdNum = corrId,
                        !.chunkLength = (acc.chunkLength + SCTP_ADD_IP_PARAMETER_LENGTH
                                         + AddrLen(param.addressParam)) % UINT16,
                        !.params = Append(acc.params, param)]
    IN  IF type = ADD_IP_ADDRESS THEN
            LET param == AddIPParameter(corrId, IF nat THEN Wildcard ELSE added)
                a == grow(param)
            IN  IF nat
                THEN [a EXCEPT !.mainLocalAddrs = acc.mainLocalAddrs \cup {added},
                               !.localAddresses = Append(acc.localAddresses, added),
                               !.targetAddr = IF remote THEN remoteAddr
                                              ELSE getNextAddress(remoteAddr)]
                ELSE a
        ELSE IF type = DELETE_IP_ADDRESS THEN
            grow(DeleteIPParameter(corrId, added))
        ELSE IF type = SET_PRIMARY_ADDRESS THEN
            grow(SetPrimaryIPParameter(corrId, IF nat THEN Wildcard ELSE added))
        ELSE acc

RECURSIVE TokenLoop(_, _, _, _)
TokenLoop(tokens, acc, nat, remote) ==
    IF tokens = <<>> THEN acc
    ELSE TokenLoop(Tail(tokens), TokenCase(Head(tokens), acc, nat, remote), nat, remote)

\* mutant of sendToIP: the transport also frees what the association keeps
sendToIP_DropsKept(h, msg, keep) == Retain(h, MsgRefs(msg))

\* sendToIP: the transport takes the message over; the one it held before
\* has been consumed
sendToIP(h, msg, keep) == Retain(h, keep \cup MsgRefs(msg))

\* ------------------------------------------------------------------------
\* Operations of the association
\* ------------------------------------------------------------------------
\* mutant of natMode: the natFriendly option is not consulted
natMode_IgnoresOption == getLevel(localAddr) = 3 /\ getLevel(remoteAddr) = 4

\* if (getLevel(localAddr)==3 && getLevel(remoteAddr)==4 && par("natFriendly"))
natMode == getLevel(localAddr) = 3 /\ getLevel(remoteAddr) = 4 /\ natFriendly

\* mutant of SendAllowed: the guard is missing
SendAllowed_Unguarded == TRUE

\* if (state->asconfOutstanding == false)
SendAllowed == asconfOutstanding = FALSE

sendAsconf(type, remote) ==
    IF SendAllowed THEN
        LET nat == natMode
            acc0 == [corrIdNum |-> corrIdNum,
                     chunkLength |-> SCTP_ADD_IP_CHUNK_LENGTH + AddrLen(localAddr),
                     params |-> <<>>,
                     localAddresses |-> localAddresses,
                     mainLocalAddrs |-> mainLocalAddrs,
                     targetAddr |-> remoteAddr]
            acc == TokenLoop(strtok(type, ","), acc0, nat, remote)
            chunk == [name |-> "ASCONF-CHUNK", chunkType |-> ASCONF,
                      serialNumber |-> asconfSn,
                      addressParam |-> IF nat THEN Wildcard ELSE localAddr,
                      peerVTag |-> IF nat THEN peerVTag ELSE 0,
                      asconfParams |-> acc.params,
                      bitLength |-> acc.chunkLength * 8]
            p == MsgChunk
            h1 == Store(heap, p, chunk)
            sctpAsconf == [name |-> "ASCONF-MSG", chunks |-> AuthPrefix \o <<Ref(p)>>,
                           dest |-> acc.targetAddr]
            d == dup(h1, p, StateChunk)
            h2 == Store(d.heap, d.ptr, [Load(d.heap, d.ptr) EXCEPT !.name = "STATE-ASCONF"])
        IN  /\ acc.corrIdNum <= MaxCorrId
            /\ corrIdNum' = acc.corrIdNum
            /\ localAddresses' = acc.localAddresses
            /\ mainLocalAddrs' = acc.mainLocalAddrs
            /\ asconfChunk' = d.ptr
            /\ heap' = sendToIP(h2, sctpAsconf, {d.ptr})
            /\ wire' = MsgRefs(sctpAsconf)
            /\ asconfOutstanding' = TRUE
            /\ issued' = issued \cup { acc.params[i].requestCorrelationId :
                                           i \in 1..Len(acc.params) }
            /\ numBuilt' = numBuilt + Len(acc.params)
            /\ sentAsconf' = chunk
            /\ lastCall' = Call("sendAsconf", <<type, remote>>,
                                <<Snapshot(h2, sctpAsconf)>>, NoRet)
            /\ UNCHANGED asconfSn
    ELSE
        /\ lastCall' = Call("sendAsconf", NoArgs, <<>>, NoRet)
        /\ UNCHANGED <<asconfOutstanding, asconfSn, corrIdNum, asconfChunk,
                       localAddresses, mainLocalAddrs, heap, wire, issued, numBuilt, sentAsconf>>

\* mutant of RtxChunk: the bit length is that of a chunk without parameters
RtxChunk_Bare(copy, kept) ==
    [copy EXCEPT !.chunkType = ASCONF, !.bitLength = SCTP_ADD_IP_CHUNK_LENGTH * 8]

\* the chunk retransmitAsconf sends: the copy, with the chunk type and the
\* bit length of the retained chunk set again
RtxChunk(copy, kept) == [copy EXCEPT !.chunkType = ASCONF, !.bitLength = kept.bitLength]

retransmitAsconf ==
    LET d == dup(heap, asconfChunk, MsgChunk)
        sctpasconf == RtxChunk(Load(d.heap, d.ptr), Load(heap, asconfChunk))
        h1 == Store(d.heap, d.ptr, sctpasconf)
        sctpmsg == [name |-> "", chunks |-> AuthPrefix \o <<Ref(d.ptr)>>,
                    dest |-> remoteAddr]
    IN  /\ asconfChunk # NULL
        /\ heap' = sendToIP(h1, sctpmsg, {asconfChunk})
        /\ wire' = MsgRefs(sctpmsg)
        /\ lastCall' = Call("retransmitAsconf", NoArgs, <<Snapshot(h1, sctpmsg)>>, NoRet)
        /\ UNCHANGED <<asconfOutstanding, asconfSn, corrIdNum, asconfChunk,
                       localAddresses, mainLocalAddrs, issued, numBuilt, sentAsconf>>

\* mutant of sendAsconfAck: the acknowledged serial number is taken for the
\* association's own
sendAsconfAck_AdoptsSn(serialNumber) ==
    LET sctpAsconfAck == [name |-> "ASCONF_ACK",
                          chunks |-> AuthPrefix \o <<createAsconfAckChunk(serialNumber)>>,
                          dest |-> remoteAddr]
    IN  /\ heap' = sendToIP(heap, sctpAsconfAck, {asconfChunk})
        /\ wire' = MsgRefs(sctpAsconfAck)
        /\ lastCall' = Call("sendAsconfAck", <<serialNumber>>,
                            <<Snapshot(heap, sctpAsconfAck)>>, NoRet)
        /\ asconfSn' = serialNumber
        /\ UNCHANGED <<asconfOutstanding, corrIdNum, asconfChunk,
                       localAddresses, mainLocalAddrs, issued, numBuilt, sentAsconf>>

\* mutant of sendAsconfAck: sending an acknowledgement is taken for
\* receiving one and clears the pending flag
sendAsconfAck_ClearsFlag(serialNumber) ==
    LET sctpAsconfAck == [name |-> "ASCONF_ACK",
                          chunks |-> AuthPrefix \o <<createAsconfAckChunk(serialNumber)>>,
                          dest |-> remoteAddr]
    IN  /\ heap' = sendToIP(heap, sctpAsconfAck, {asconfChunk})
        /\ wire' = MsgRefs(sctpAsconfAck)
        /\ lastCall' = Call("sendAsconfAck", <<serialNumber>>,
                            <<Snapshot(heap, sctpAsconfAck)>>, NoRet)
        /\ asconfOutstanding' = FALSE
        /\ UNCHANGED <<asconfSn, corrIdNum, asconfChunk,
                       localAddresses, mainLocalAddrs, issued, numBuilt, sentAsconf>>

sendAsconfAck(serialNumber) ==
    LET sctpAsconfAck == [name |-> "ASCONF_ACK",
                          chunks |-> AuthPrefix \o <<createAsconfAckChunk(serialNumber)>>,
                          dest |-> remoteAddr]
    IN  /\ heap' = sendToIP(heap, sctpAsconfAck, {asconfChunk})
        /\ wire' = MsgRefs(sctpAsconfAck)
        /\ lastCall' = Call("sendAsconfAck", <<serialNumber>>,
                            <<Snapshot(heap, sctpAsconfAck)>>, NoRet)
        /\ UNCHANGED <<asconfOutstanding, asconfSn, corrIdNum, asconfChunk,
                       localAddresses, mainLocalAddrs, issued, numBuilt, sentAsconf>>

CreateAsconfAckChunk(serialNumber) ==
    /\ lastCall' = Call("createAsconfAckChunk", <<serialNumber>>, <<>>,
                        createAsconfAckChunk(serialNumber))
    /\ UNCHANGED <<asconfOutstanding, asconfSn, corrIdNum, asconfChunk,
                   localAddresses, mainLocalAddrs, heap, wire, issued, numBuilt, sentAsconf>>

CreateAuthChunk ==
    /\ lastCall' = Call("createAuthChunk", NoArgs, <<>>, createAuthChunk)
    /\ UNCHANGED <<asconfOutstanding, asconfSn, corrIdNum, asconfChunk,
                   localAddresses, mainLocalAddrs, heap, wire, issued, numBuilt, sentAsconf>>

\* ------------------------------------------------------------------------
\* Environment of the association
\* ------------------------------------------------------------------------
\* an ASCONF-ACK arrives: one that matches the pending request completes it
AsconfAckArrived(serialNumber) ==
    /\ (asconfOutstanding /\ serialNumber = asconfSn) => asconfSn < MaxSn
    /\ lastCall' = Call("asconfAckArrived", <<serialNumber>>, <<>>, NoRet)
    /\ IF asconfOutstanding /\ serialNumber = asconfSn
       THEN /\ asconfOutstanding' = FALSE
            /\ asconfSn' = asconfSn + 1
       ELSE UNCHANGED <<asconfOutstanding, asconfSn>>
    /\ UNCHANGED <<corrIdNum, asconfChunk, localAddresses, mainLocalAddrs,
                   heap, wire, issued, numBuilt, sentAsconf>>

\* the flag is cleared from outside (restart of the request handling)
Reset ==
    /\ asconfOutstanding
    /\ asconfOutstanding' = FALSE
    /\ lastCall' = Call("reset", NoArgs, <<>>, NoRet)
    /\ UNCHANGED <<asconfSn, corrIdNum, asconfChunk, localAddresses, mainLocalAddrs,
                   heap, wire, issued, numBuilt, sentAsconf>>

\* the transport consumes the message it was handed and deletes it
Deliver ==
    /\ wire # {}
    /\ heap' = Free(heap, wire)
    /\ wire' = {}
    /\ lastCall' = Call("deliver", NoArgs, <<>>, NoRet)
    /\ UNCHANGED <<asconfOutstanding, asconfSn, corrIdNum, asconfChunk,
                   localAddresses, mainLocalAddrs, issued, numBuilt, sentAsconf>>

\* ------------------------------------------------------------------------
\* Shared key derivation
\* ------------------------------------------------------------------------
Endpoints == {"A", "Z"}

Bytes == 0..MaxByte

\* sizeof(state->keyVector), sizeof(state->peerKeyVector): the storage of the
\* two arrays, whatever the lengths of the vectors held in them
SizeofKeyVector == KeyVectorStorage
SizeofPeerKeyVector == KeyVectorStorage

\* the values the uninitialised local 'size' of compareRandom is read with
\* (those for which the comparison loop stays inside the arrays)
UninitSizes == 0..KeyVectorStorage

\* for (i = hi-1; i > lo; i--) if (v[i] != 0) return ...
ExcessNonZero(v, hi, lo) == \E i \in (lo + 1)..(hi - 1) : v[i] # 0

\* for (i = size-1; i > 0; i--) { if kv[i] < pkv[i] return false;
\*                                if kv[i] > pkv[i] return true; } return true;
CompareLoop(kv, pkv, size) ==
    LET differ == { i \in 1..(size - 1) : kv[i] # pkv[i] }
    IN  IF differ = {} THEN TRUE
        ELSE LET top == CHOOSE i \in differ : \A j \in differ : j <= i
             IN  kv[top] > pkv[top]

\* compareRandom; uninit is what 'size' holds when no branch assigned it
compareRandom(kv, pkv, uninit) ==
    LET sizeKV == SizeofKeyVector
        sizePKV == SizeofPeerKeyVector
        size == IF sizeKV # sizePKV
                THEN (IF sizePKV > sizeKV THEN sizeKV ELSE sizePKV)
                ELSE uninit
    IN  IF sizeKV # sizePKV /\ sizePKV > sizeKV /\ ExcessNonZero(pkv, sizePKV, sizeKV)
        THEN FALSE
        ELSE IF sizeKV # sizePKV /\ ~(sizePKV > sizeKV) /\ ExcessNonZero(kv, sizeKV, sizePKV)
        THEN TRUE
        ELSE CompareLoop(kv, pkv, size)

\* mutant of CopyKeys: the second vector is written before the first
CopyKeys_Swapped(key, first, sizeFirst, second, sizeSecond) ==
    [i \in DOMAIN key |->
        IF i < sizeSecond THEN second[i]
        ELSE IF i < sizeFirst + sizeSecond THEN first[i - sizeSecond]
        ELSE key[i]]

\* the two copy loops of calculateAssocSharedKey: first, then second
CopyKeys(key, first, sizeFirst, second, sizeSecond) ==
    [i \in DOMAIN key |->
        IF i < sizeFirst THEN first[i]
        ELSE IF i < sizeFirst + sizeSecond THEN second[i - sizeFirst]
        ELSE key[i]]

calculateAssocSharedKey(e, uninit) ==
    LET result == compareRandom(keyVector[e], peerKeyVector[e], uninit)
    IN  /\ peerFirst' = [peerFirst EXCEPT ![e] = {result}]
        /\ sharedKey' = [sharedKey EXCEPT ![e] =
               IF result = TRUE
               THEN CopyKeys(sharedKey[e], keyVector[e], sizeKeyVector[e],
                             peerKeyVector[e], sizePeerKeyVector[e])
               ELSE CopyKeys(sharedKey[e], peerKeyVector[e], sizePeerKeyVector[e],
                             keyVector[e], sizeKeyVector[e])]
        /\ UNCHANGED <<keyVector, peerKeyVector, sizeKeyVector, sizePeerKeyVector>>

CalculateAssocSharedKey ==
    \E e \in Endpoints, uninit \in UninitSizes : calculateAssocSharedKey(e, uninit)

\* a vector of the given bytes in an array whose remaining storage holds fill
KeyArray(bytes, fill) ==
    [i \in 0..(KeyVectorStorage - 1) |-> IF i < Len(bytes) THEN bytes[i + 1] ELSE fill]

KeyVectors == UNION { [1..n -> Bytes] : n \in 0..MaxKeyLen }

\* the two endpoints have exchanged their key vectors: each holds its own
\* vector and the other's, with their lengths
KeyInit ==
    \E own \in KeyVectors, peer \in KeyVectors, fill \in Bytes :
        /\ Len(own) + Len(peer) <= KeyVectorStorage
        /\ keyVector = [e \in Endpoints |-> IF e = "A" THEN KeyArray(own, fill)
                                                        ELSE KeyArray(peer, fill)]
        /\ peerKeyVector = [e \in Endpoints |-> IF e = "A" THEN KeyArray(peer, fill)
                                                            ELSE KeyArray(own, fill)]
        /\ sizeKeyVector = [e \in Endpoints |-> IF e = "A" THEN Len(own) ELSE Len(peer)]
        /\ sizePeerKeyVector = [e \in Endpoints |-> IF e = "A" THEN Len(peer) ELSE Len(own)]
        /\ sharedKey = [e \in Endpoints |-> [i \in 0..(KeyVectorStorage - 1) |-> 0]]
        /\ peerFirst = [e \in Endpoints |-> {}]

KeyInitIdle ==
    /\ keyVector = [e \in Endpoints |-> [i \in 0..(KeyVectorStorage - 1) |-> 0]]
    /\ peerKeyVector = [e \in Endpoints |-> [i \in 0..(KeyVectorStorage - 1) |-> 0]]
    /\ sizeKeyVector = [e \in Endpoints |-> 0]
    /\ sizePeerKeyVector = [e \in Endpoints |-> 0]
    /\ sharedKey = [e \in Endpoints |-> [i \in 0..(KeyVectorStorage - 1) |-> 0]]
    /\ peerFirst = [e \in Endpoints |-> {}]

\* ------------------------------------------------------------------------
\* Routing file lines
\* ------------------------------------------------------------------------
NetA == <<"1", "0", ".", "1">>
NetB == <<"1", "0", ".", "2">>
Gateway == <<"1", "0", ".", "9">>
Netmask == <<"2", "5", "5">>
TypeH == <<"H">>
TypeG == <<"G">>
TypeOther == <<"X">>
MetricCol == <<"0">>
Ppp0 == <<"p", "p", "p", "0">>
Eth0 == <<"e", "t", "h", "0">>
Eth1 == <<"e", "t", "h", "1">>

\* the interface tables explored
InterfaceTables == { {}, {Ppp0}, {Eth1}, {Ppp0, Eth0} }

\* the column lists of the lines given to makeRoutingEntry: from no column
\* to one column too many, with empty columns (two blanks in a row) as well
RouteColumnLists ==
    LET full == { <<h, Gateway, Netmask, t, MetricCol, i>> :
                      h \in {NetA, NetB}, t \in {TypeH, TypeG, TypeOther},
                      i \in {Ppp0, Eth1} }
    IN  { SubSeq(c, 1, n) : c \in full, n \in 0..6 }
        \cup { <<NetA, Gateway, Netmask, TypeG, MetricCol, Eth0, Ppp0>>,
               <<NetA, TokEmpty, Gateway, Netmask, TypeH, MetricCol, Ppp0>>,
               <<TokEmpty, TokEmpty>> }

RECURSIVE Line(_)
Line(cols) ==
    IF cols = <<>> THEN <<>>
    ELSE IF Len(cols) = 1 THEN cols[1]
    ELSE cols[1] \o <<" ">> \o Line(Tail(cols))

RouteLines == { Line(cols) : cols \in RouteColumnLists }

\* ------------------------------------------------------------------------
\* makeRoutingEntry
\* ------------------------------------------------------------------------
DIRECT == "DIRECT"
REMOTE == "REMOTE"

\* new IPRoute(): no addresses, no interface
IPRoute ==
    [host |-> <<>>, gateway |-> <<>>, netmask |-> <<>>, type |-> DIRECT, metric |-> 0,
     interface |-> NULL]

\* IPRoute::getInterfaceName(): the name of the interface the route points to
getInterfaceName(e) == IF e.interface = NULL THEN <<>> ELSE e.interface

\* IInterfaceTable::getInterfaceByName
getInterfaceByName(ift, name) == IF name \in ift THEN name ELSE NULL

\* opp_string(e->getInterfaceName()): a temporary string holding a copy of
\* the route's interface name. The 6th column is copied into the buffer of
\* one such temporary, which ends with the statement; the lookup is made
\* with the contents of another, made afresh from the route.
LookupName(e, str) == getInterfaceName(e)

\* mutant of InterfaceMissing: the result of the lookup is not tested
InterfaceMissing_Never(ie) == FALSE

\* if (e->getInterface()==NULL) throw cRuntimeError(...)
InterfaceMissing(ie) == ie = NULL

cRuntimeError == "cRuntimeError"

\* the route filled in from the first five columns
RouteOf(cols) ==
    LET n == Len(cols)
        e1 == IF n >= 1 THEN [IPRoute EXCEPT !.host = cols[1]] ELSE IPRoute
        e2 == IF n >= 2 THEN [e1 EXCEPT !.gateway = cols[2]] ELSE e1
        e3 == IF n >= 3 THEN [e2 EXCEPT !.netmask = cols[3]] ELSE e2
        e4 == IF n >= 4
              THEN (IF cols[4][1] = "H" THEN [e3 EXCEPT !.type = DIRECT]
                    ELSE IF cols[4][1] = "G" THEN [e3 EXCEPT !.type = REMOTE]
                    ELSE e3)
              ELSE e3
    IN  IF n >= 5 THEN [e4 EXCEPT !.metric = 0] ELSE e4

makeRoutingEntry(route) ==
    IF route # <<>> THEN
        LET cols == strtok(route, " ")
            e == RouteOf(cols)
        IN  IF Len(cols) >= 6 THEN
                LET ie == getInterfaceByName(interfaceTable, LookupName(e, cols[6]))
                IN  IF InterfaceMissing(ie)
                    THEN /\ lastCall' = Call("makeRoutingEntry", <<route>>, <<>>, cRuntimeError)
                         /\ UNCHANGED routingTable
                    ELSE /\ routingTable' = routingTable \cup {[e EXCEPT !.interface = ie]}
                         /\ lastCall' = Call("makeRoutingEntry", <<route>>, <<>>, NoRet)
            ELSE /\ lastCall' = Call("makeRoutingEntry", <<route>>, <<>>, NoRet)
                 /\ UNCHANGED routingTable
    ELSE /\ lastCall' = Call("makeRoutingEntry", <<route>>, <<>>, NoRet)
         /\ UNCHANGED routingTable

MakeRoutingEntry ==
    /\ \E route \in RouteLines : makeRoutingEntry(route)
    /\ UNCHANGED <<asconfOutstanding, asconfSn, corrIdNum, asconfChunk, localAddresses,
                   mainLocalAddrs, heap, wire, issued, numBuilt, sentAsconf,
                   interfaceTable>>

RouteInit ==
    /\ interfaceTable \in InterfaceTables
    /\ routingTable = {}

RouteInitIdle ==
    /\ interfaceTable = {}
    /\ routingTable = {}

\* ------------------------------------------------------------------------
\* RIP: route entries, interfaces, timers
\* ------------------------------------------------------------------------
\* the elements of a sequence
Range(f) == { f[i] : i \in DOMAIN f }

RIP_INFINITE_METRIC == 16

\* routeExpiryTime, routePurgeTime (seconds)
RouteExpiryTime == 180
RoutePurgeTime == 120

\* the triggered update is delayed by a time from [1s, 5s]
MinTriggerDelay == 1
MaxTriggerDelay == 5
TriggerDelays == {MinTriggerDelay, MaxTriggerDelay}

\* RIPRoute::RouteType
RIP_ROUTE_RTE == "RIP_ROUTE_RTE"
RIP_ROUTE_STATIC == "RIP_ROUTE_STATIC"

\* SplitHorizonMode
NO_SPLIT_HORIZON == "NO_SPLIT_HORIZON"
SPLIT_HORIZON == "SPLIT_HORIZON"
SPLIT_HORIZON_POISONED_REVERSE == "SPLIT_HORIZON_POISONED_REVERSE"
SplitHorizonModes == {NO_SPLIT_HORIZON, SPLIT_HORIZON, SPLIT_HORIZON_POISONED_REVERSE}

\* the router's RIP interfaces in the order of ripInterfaces, and who is
\* reached over each
RipIfs == <<"eth0", "eth1">>
Neighbor1 == "N1"
Neighbor2 == "N2"
OwnAddress == "R1"
NeighborOn(ie) == IF ie = "eth0" THEN Neighbor1 ELSE Neighbor2

\* RIPInterfaceEntry
RIPInterfaceEntry(metric, mode) == [metric |-> metric, splitHorizonMode |-> mode]

\* the networks: one learned from neighbours, one configured statically
LearnedNet == "10.0.0.0/24"
StaticNet == "192.168.0.0/24"

\* RIPRoute
RIPRoute(dest, type, ie, from, nextHop, metric, changed, lastUpdateTime) ==
    [dest |-> dest, type |-> type, ie |-> ie, from |-> from, nextHop |-> nextHop,
     metric |-> metric, changed |-> changed, lastUpdateTime |-> lastUpdateTime]

\* the deadlines of a route entry
expiryTime(route) == route.lastUpdateTime + RouteExpiryTime
purgeTime(route) == expiryTime(route) + RoutePurgeTime

\* a RIPRoute pointer is the set holding the route it points to, the null
\* pointer the empty set
NoRoute == {}

\* findRoute: the entry for a destination, or the null pointer
findRoute(routes, dest) == { r \in routes : r.dest = dest }

\* the part of the router's state the RIP operations work on
RipState(routes, events) == [routes |-> routes, fes |-> events]

\* mutant of triggerUpdate: the timer is scheduled without looking whether
\* it is pending
triggerUpdate_Always(rs, delay) == [rs EXCEPT !.fes = Append(rs.fes, now + delay)]

\* triggerUpdate: schedule the triggered update unless it is scheduled
triggerUpdate(rs, delay) ==
    IF rs.fes # <<>> THEN rs
    ELSE [rs EXCEPT !.fes = <<now + delay>>]

\* replace the entry of a destination
SetRoute(rs, old, new) == [rs EXCEPT !.routes = (rs.routes \ {old}) \cup {new}]

\* mutant of invalidateRoute: the route is deleted
invalidateRoute_Deletes(rs, route, delay) ==
    triggerUpdate([rs EXCEPT !.routes = rs.routes \ {route}], delay)

\* invalidateRoute: the route is kept with the infinite metric and marked
\* changed, and an update is triggered
invalidateRoute(rs, route, delay) ==
    triggerUpdate(SetRoute(rs, route, [route EXCEPT !.metric = RIP_INFINITE_METRIC,
                                                    !.changed = TRUE]), delay)

\* purgeRoute: the route is removed
purgeRoute(rs, route) == [rs EXCEPT !.routes = rs.routes \ {route}]

\* mutant of checkRouteState: the purge deadline is taken to be the expiry
\* deadline
checkRouteState_PurgesAtExpiry(rs, route, delay) ==
    IF route.type # RIP_ROUTE_RTE THEN rs
    ELSE IF now >= expiryTime(route) THEN purgeRoute(rs, route)
    ELSE rs

\* checkRoute, the state it leaves: a learned route past its purge deadline
\* is purged, one past its expiry deadline is invalidated (once)
checkRouteState(rs, route, delay) ==
    IF route.type # RIP_ROUTE_RTE THEN rs
    ELSE IF now >= purgeTime(route) THEN purgeRoute(rs, route)
    ELSE IF now >= expiryTime(route) /\ route.metric # RIP_INFINITE_METRIC
         THEN invalidateRoute(rs, route, delay)
    ELSE rs

\* checkRoute, what it returns: the route if it is valid
checkRoute(route) ==
    IF route.type = RIP_ROUTE_RTE /\ now >= expiryTime(route) THEN NoRoute ELSE {route}

\* a table scan: checkRoute on every entry
RECURSIVE checkRoutes(_, _, _)
checkRoutes(rs, todo, delay) ==
    IF todo = {} THEN rs
    ELSE LET r == CHOOSE x \in todo : TRUE
         IN  checkRoutes(checkRouteState(rs, r, delay), todo \ {r}, delay)

\* ------------------------------------------------------------------------
\* RIP: sending and receiving routes
\* ------------------------------------------------------------------------
\* the clock moves from one multiple of TimeStep to the next when no timer
\* event is due before
TimeStep == 60

\* the metrics advertised by the neighbours
AdvMetrics == {1, 15, 16, 17}

LearnedOver(route, ie) == route.type = RIP_ROUTE_RTE /\ route.ie = ie

\* split horizon: the route is left out of a response sent on ie
Suppressed(route, ie) ==
    LearnedOver(route, ie) /\ ripInterfaces[ie].splitHorizonMode = SPLIT_HORIZON

\* mutant of AdvertisedMetric: the stored metric goes out on every interface
AdvertisedMetric_Stored(route, ie) == route.metric

\* poisoned reverse: the metric of the route in a response sent on ie
AdvertisedMetric(route, ie) ==
    IF LearnedOver(route, ie)
       /\ ripInterfaces[ie].splitHorizonMode = SPLIT_HORIZON_POISONED_REVERSE
    THEN RIP_INFINITE_METRIC
    ELSE route.metric

\* sendRoutes for one interface: the state it leaves and the response built
sendRoutes(rs, ie, changedOnly, delay) ==
    LET rs1 == checkRoutes(rs, rs.routes, delay)
        eligible == { r \in rs1.routes : (~changedOnly \/ r.changed) /\ ~Suppressed(r, ie) }
        entries == { [dest |-> r.dest, metric |-> AdvertisedMetric(r, ie)] : r \in eligible }
        routes == IF changedOnly
                  THEN { IF r \in eligible THEN [r EXCEPT !.changed = FALSE] ELSE r :
                           r \in rs1.routes }
                  ELSE rs1.routes
    IN  [rs |-> [rs1 EXCEPT !.routes = routes],
         packets |-> <<[ie |-> ie, changedOnly |-> changedOnly, entries |-> entries]>>]

\* sendRoutes on every RIP interface in turn
RECURSIVE sendRoutesOnAll(_, _, _, _)
sendRoutesOnAll(rs, ifs, changedOnly, delay) ==
    IF ifs = <<>> THEN [rs |-> rs, packets |-> <<>>]
    ELSE LET first == sendRoutes(rs, Head(ifs), changedOnly, delay)
             rest == sendRoutesOnAll(first.rs, Tail(ifs), changedOnly, delay)
         IN  [rs |-> rest.rs, packets |-> first.packets \o rest.packets]

\* isValidResponse: no entry with a metric above 16, not sent by the router
\* itself
isValidResponse(from, entry) ==
    /\ from # OwnAddress
    /\ entry.metric >= 0
    /\ entry.metric <= RIP_INFINITE_METRIC

Min(a, b) == IF a < b THEN a ELSE b

\* mutant of CandidateMetric: the sum is not capped
CandidateMetric_Uncapped(advertised, ie) == advertised + ripInterfaces[ie].metric

\* the metric of a route learned from an entry received on ie
CandidateMetric(advertised, ie) ==
    Min(advertised + ripInterfaces[ie].metric, RIP_INFINITE_METRIC)

\* addRoute: a new learned route, marked changed; an update is triggered
addRoute(rs, dest, ie, nextHop, metric, from, delay) ==
    triggerUpdate([rs EXCEPT !.routes = rs.routes \cup
                       {RIPRoute(dest, RIP_ROUTE_RTE, ie, from, nextHop, metric, TRUE, now)}],
                  delay)

\* updateRoute: the infinite metric invalidates the route, any other is
\* stored with its next hop and refreshes the route
updateRoute(rs, route, ie, nextHop, metric, from, delay) ==
    IF metric = RIP_INFINITE_METRIC
    THEN invalidateRoute(rs, route, delay)
    ELSE LET new == [route EXCEPT !.ie = ie, !.from = from, !.nextHop = nextHop,
                                  !.metric = metric, !.lastUpdateTime = now,
                                  !.changed = (route.changed \/ metric # route.metric
                                               \/ nextHop # route.nextHop)]
         IN  IF new.changed /\ (metric # route.metric \/ nextHop # route.nextHop)
             THEN triggerUpdate(SetRoute(rs, route, new), delay)
             ELSE SetRoute(rs, route, new)

\* processResponse for a response with one entry, received on ie from 'from'
processResponse(rs, ie, from, entry, delay) ==
    IF ~isValidResponse(from, entry) THEN rs
    ELSE LET metric == CandidateMetric(entry.metric, ie)
             found == findRoute(rs.routes, entry.dest)
             rs1 == checkRoutes(rs, found, delay)
             ripRoute == findRoute(rs1.routes, entry.dest)
         IN  IF ripRoute = NoRoute
             THEN (IF metric # RIP_INFINITE_METRIC
                   THEN addRoute(rs1, entry.dest, ie, from, metric, from, delay)
                   ELSE rs1)
             ELSE LET route == CHOOSE r \in ripRoute : TRUE
                  IN  IF route.type # RIP_ROUTE_RTE THEN rs1
                      ELSE IF route.from = from \/ metric < route.metric
                      THEN updateRoute(rs1, route, ie, from, metric, from, delay)
                      ELSE rs1

\* ------------------------------------------------------------------------
\* RIP: events
\* ------------------------------------------------------------------------
CurrentRip == RipState(ripRoutes, fes)

RipStep(rs, call) ==
    /\ ripRoutes' = rs.routes
    /\ fes' = rs.fes
    /\ lastCall' = call
    /\ UNCHANGED <<now, ripInterfaces>>
    /\ UNCHANGED <<asconfOutstanding, asconfSn, corrIdNum, asconfChunk, localAddresses,
                   mainLocalAddrs, heap, wire, issued, numBuilt, sentAsconf>>

\* packets and calls from outside come at multiples of TimeStep; between
\* them only the timers run
OnGrid == now % TimeStep = 0

TriggerUpdate ==
    \E delay \in TriggerDelays :
        OnGrid /\
        RipStep(triggerUpdate(CurrentRip, delay),
                Call("triggerUpdate", NoArgs, <<>>,
                     IF fes # <<>> THEN "alreadyScheduled" ELSE "scheduled"))

ProcessResponse ==
    \E ie \in Range(RipIfs), metric \in AdvMetrics, delay \in TriggerDelays :
        \E from \in {NeighborOn(ie), OwnAddress} :
            OnGrid /\
            LET entry == [dest |-> LearnedNet, metric |-> metric]
                valid == isValidResponse(from, entry)
            IN  RipStep(processResponse(CurrentRip, ie, from, entry, delay),
                        Call("processResponse", <<ie, from, entry>>, <<>>,
                             IF valid THEN "accepted" ELSE "badResponse"))

\* processRequest for a request for the whole table
ProcessRequest ==
    \E ie \in Range(RipIfs), delay \in TriggerDelays :
        OnGrid /\
        LET out == sendRoutes(CurrentRip, ie, FALSE, delay)
        IN  RipStep(out.rs, Call("processRequest", <<ie>>, out.packets, NoRet))

\* the triggered update timer fires: the changed routes are sent
ProcessTriggeredUpdate ==
    /\ fes # <<>>
    /\ \E i \in DOMAIN fes :
          /\ fes[i] = now
          /\ \E delay \in TriggerDelays :
                LET fired == [j \in 1..(Len(fes) - 1) |-> IF j < i THEN fes[j] ELSE fes[j + 1]]
                    out == sendRoutesOnAll(RipState(ripRoutes, fired), RipIfs, TRUE, delay)
                IN  RipStep(out.rs, Call("processTriggeredUpdate", NoArgs, out.packets, NoRet))

\* the regular update timer fires: all routes are sent, and a pending
\* triggered update is cancelled
ProcessRegularUpdate ==
    /\ OnGrid
    /\ \E delay \in TriggerDelays :
          LET out == sendRoutesOnAll(CurrentRip, RipIfs, FALSE, delay)
          IN  RipStep([out.rs EXCEPT !.fes = <<>>],
                      Call("processRegularUpdate", NoArgs, out.packets, NoRet))

\* a table scan outside any update
CheckRoutes ==
    \E delay \in TriggerDelays :
        OnGrid /\
        RipStep(checkRoutes(CurrentRip, ripRoutes, delay),
                Call("checkRoute", NoArgs, <<>>,
                     UNION { checkRoute(r) : r \in ripRoutes }))

\* the clock moves to the next timer event, or to the next multiple of
\* TimeStep if none is due before
Advance ==
    LET grid == ((now \div TimeStep) + 1) * TimeStep
        due == { fes[i] : i \in DOMAIN fes }
        next == IF \E t \in due : t < grid
                THEN CHOOSE t \in due : \A u \in due : t <= u
                ELSE grid
    IN  /\ \A t \in due : t > now
        /\ next <= MaxTime
        /\ now' = next
        /\ lastCall' = Call("advance", NoArgs, <<>>, NoRet)
        /\ UNCHANGED <<ripRoutes, fes, ripInterfaces>>
        /\ UNCHANGED <<asconfOutstanding, asconfSn, corrIdNum, asconfChunk, localAddresses,
                       mainLocalAddrs, heap, wire, issued, numBuilt, sentAsconf>>

RipInit ==
    /\ \E mode \in SplitHorizonModes :
          ripInterfaces = [ie \in Range(RipIfs) |->
                              RIPInterfaceEntry(IF ie = "eth0" THEN 1 ELSE 2, mode)]
    /\ ripRoutes = {RIPRoute(StaticNet, RIP_ROUTE_STATIC, NULL, NULL, NULL, 1, FALSE, 0)}
    /\ now = 0
    /\ fes = <<>>

RipInitIdle ==
    /\ ripInterfaces = [ie \in Range(RipIfs) |-> RIPInterfaceEntry(1, NO_SPLIT_HORIZON)]
    /\ ripRoutes = {}
    /\ now = 0
    /\ fes = <<>>

\* ------------------------------------------------------------------------
\* Specifications
\* ------------------------------------------------------------------------
AsconfInitIn(configs) ==
    /\ asconfOutstanding = FALSE
    /\ asconfSn = 0
    /\ corrIdNum = 0
    /\ asconfChunk = NULL
    /\ \E c \in configs :
          /\ localAddr = c.localAddr
          /\ remoteAddr = c.remoteAddr
          /\ natFriendly = c.natFriendly
          /\ auth = c.auth
          /\ peerAuth = c.peerAuth
          /\ addAddress = c.addAddress
    /\ localAddresses = <<localAddr>>
    /\ mainLocalAddrs = {localAddr}
    /\ peerVTag \in VTags
    /\ heap = <<>>
    /\ wire = {}
    /\ lastCall = Call("init", NoArgs, <<>>, NoRet)
    /\ issued = {}
    /\ numBuilt = 0
    /\ sentAsconf = Garbage

AsconfInit == AsconfInitIn(Configs)

Init == AsconfInit /\ KeyInitIdle /\ RouteInitIdle /\ RipInitIdle

SendAsconf ==
    \E type \in RequestStrings, remote \in BOOLEAN : sendAsconf(type, remote)

RetransmitAsconf == retransmitAsconf

SendAsconfAck == \E sn \in 0..MaxSn : sendAsconfAck(sn)

CreateAck == \E sn \in 0..MaxSn : CreateAsconfAckChunk(sn)

AckArrived == \E sn \in 0..MaxSn : AsconfAckArrived(sn)

Next ==
    \/ SendAsconf /\ UNCHANGED configVars /\ UNCHANGED otherVars
    \/ RetransmitAsconf /\ UNCHANGED configVars /\ UNCHANGED otherVars
    \/ SendAsconfAck /\ UNCHANGED configVars /\ UNCHANGED otherVars
    \/ CreateAck /\ UNCHANGED configVars /\ UNCHANGED otherVars
    \/ CreateAuthChunk /\ UNCHANGED configVars /\ UNCHANGED otherVars
    \/ AckArrived /\ UNCHANGED configVars /\ UNCHANGED otherVars
    \/ Reset /\ UNCHANGED configVars /\ UNCHANGED otherVars
    \/ Deliver /\ UNCHANGED configVars /\ UNCHANGED otherVars

Spec == Init /\ [][Next]_vars

InitKey ==
    /\ AsconfInitIn({Config(Private4, PeerGlobal4, FALSE, TRUE, TRUE, "10.0.0.9")})
    /\ KeyInit
    /\ RouteInitIdle
    /\ RipInitIdle

NextKey ==
    CalculateAssocSharedKey /\ UNCHANGED asconfVars /\ UNCHANGED routeVars /\ UNCHANGED ripVars

SpecKey == InitKey /\ [][NextKey]_vars

InitRoute ==
    /\ AsconfInitIn({Config(Private4, PeerGlobal4, FALSE, TRUE, TRUE, "10.0.0.9")})
    /\ KeyInitIdle
    /\ RouteInit
    /\ RipInitIdle

NextRoute ==
    MakeRoutingEntry /\ UNCHANGED configVars /\ UNCHANGED keyVars /\ UNCHANGED ripVars

SpecRoute == InitRoute /\ [][NextRoute]_vars

InitRip ==
    /\ AsconfInitIn({Config(Private4, PeerGlobal4, FALSE, TRUE, TRUE, "10.0.0.9")})
    /\ KeyInitIdle
    /\ RouteInitIdle
    /\ RipInit

NextRip ==
    \/ TriggerUpdate /\ UNCHANGED configVars /\ UNCHANGED keyVars /\ UNCHANGED routeVars
    \/ ProcessResponse /\ UNCHANGED configVars /\ UNCHANGED keyVars /\ UNCHANGED routeVars
    \/ ProcessRequest /\ UNCHANGED configVars /\ UNCHANGED keyVars /\ UNCHANGED routeVars
    \/ ProcessTriggeredUpdate /\ UNCHANGED configVars /\ UNCHANGED keyVars /\ UNCHANGED routeVars
    \/ ProcessRegularUpdate /\ UNCHANGED configVars /\ UNCHANGED keyVars /\ UNCHANGED routeVars
    \/ CheckRoutes /\ UNCHANGED configVars /\ UNCHANGED keyVars /\ UNCHANGED routeVars
    \/ Advance /\ UNCHANGED configVars /\ UNCHANGED keyVars /\ UNCHANGED routeVars

SpecRip == InitRip /\ [][NextRip]_vars

\* ------------------------------------------------------------------------
\* Properties
\* ------------------------------------------------------------------------
IsAsconf(c) == c.chunkType = ASCONF

\* the ASCONF chunks of a transmitted message
AsconfChunksOf(msg) == SelectSeq(msg.chunks, IsAsconf)

\* the fields of an ASCONF chunk that go on the wire
Wire(c) ==
    [chunkType |-> c.chunkType, serialNumber |-> c.serialNumber,
     addressParam |-> c.addressParam, peerVTag |-> c.peerVTag,
     asconfParams |-> c.asconfParams, bitLength |-> c.bitLength]

ParamTypes(c) == [i \in 1..Len(c.asconfParams) |-> c.asconfParams[i].parameterType]

CorrIds(c) == [i \in 1..Len(c.asconfParams) |-> c.asconfParams[i].requestCorrelationId]

\* the last operation was a sendAsconf that transmitted
SentByAsconf(call) == call.op = "sendAsconf" /\ call.sent # <<>>

\* C1: while asconfOutstanding is true, a sendAsconf call transmits nothing
\* and leaves asconfOutstanding, asconfSn, corrIdNum, the retained chunk and
\* the local address list as they were.
C1_NoOpWhileOutstanding ==
    [][ (asconfOutstanding /\ lastCall'.op = "sendAsconf")
        => /\ lastCall'.sent = <<>>
           /\ wire' = wire
           /\ asconfOutstanding' = asconfOutstanding
           /\ asconfSn' = asconfSn
           /\ corrIdNum' = corrIdNum
           /\ asconfChunk' = asconfChunk
           /\ Load(heap', asconfChunk') = Load(heap, asconfChunk)
           /\ localAddresses' = localAddresses
           /\ mainLocalAddrs' = mainLocalAddrs ]_vars

C1_Witness ==
    /\ asconfOutstanding
    /\ lastCall.op = "sendAsconf"
    /\ lastCall.sent = <<>>

\* C2: asconfOutstanding goes from true to false only by an ASCONF-ACK whose
\* serial number is that of the pending request, or by a reset; sendAsconf,
\* retransmitAsconf, sendAsconfAck, createAsconfAckChunk and createAuthChunk
\* never clear it.
C2_ClearedOnlyByAckOrReset ==
    [][ (asconfOutstanding /\ ~asconfOutstanding')
        => \/ lastCall'.op = "reset"
           \/ /\ lastCall'.op = "asconfAckArrived"
              /\ lastCall'.args = <<sentAsconf.serialNumber>> ]_vars

C2_Witness ==
    /\ asconfOutstanding
    /\ lastCall.op \in {"retransmitAsconf", "sendAsconfAck", "createAsconfAckChunk",
                        "createAuthChunk"}
    /\ asconfSn > 0

\* C3 (as stated): from asconfOutstanding = false, sendAsconf("1", false)
\* transmits exactly one message holding exactly one ASCONF chunk, the chunk
\* carries an ADD_IP parameter (type 0xC001), and asconfOutstanding is true
\* afterwards.
C3_Original ==
    [][ (~asconfOutstanding /\ lastCall'.op = "sendAsconf"
                            /\ lastCall'.args = <<TokOne, FALSE>>)
        => /\ Len(lastCall'.sent) = 1
           /\ Len(AsconfChunksOf(lastCall'.sent[1])) = 1
           /\ ADD_IP_ADDRESS \in Range(ParamTypes(AsconfChunksOf(lastCall'.sent[1])[1]))
           /\ asconfOutstanding' ]_vars

\* C3 (amended): from asconfOutstanding = false, sendAsconf("1", false)
\* transmits exactly one message holding exactly one ASCONF chunk and sets
\* asconfOutstanding, but the chunk carries no parameter: atoi("1") = 1 is
\* none of the switch's cases. The chunk carries one ADD_IP parameter
\* (type 0xC001) when the request list is "49153".
C3_Amended ==
    [][ (~asconfOutstanding /\ lastCall'.op = "sendAsconf"
                            /\ lastCall'.args \in {<<TokOne, FALSE>>, <<TokAdd, FALSE>>})
        => /\ Len(lastCall'.sent) = 1
           /\ Len(AsconfChunksOf(lastCall'.sent[1])) = 1
           /\ asconfOutstanding'
           /\ LET types == ParamTypes(AsconfChunksOf(lastCall'.sent[1])[1])
              IN  /\ lastCall'.args[1] = TokOne => types = <<>>
                  /\ lastCall'.args[1] = TokAdd => types = <<ADD_IP_ADDRESS>> ]_vars

C3_Witness ==
    /\ lastCall.op = "sendAsconf"
    /\ lastCall.args = <<TokOne, FALSE>>
    /\ Len(lastCall.sent) = 1
    /\ sentAsconf.asconfParams = <<>>
    /\ asconfOutstanding

\* C4: no two ASCONF parameters built by the association carry the same
\* correlation ID (as many IDs were issued as parameters were built), and a
\* retransmission repeats exactly the IDs of the parameters it sends again.
C4_CorrIdsUnique ==
    /\ Cardinality(issued) = numBuilt
    /\ lastCall.op = "retransmitAsconf"
       => \A i \in DOMAIN AsconfChunksOf(lastCall.sent[1]) :
             CorrIds(AsconfChunksOf(lastCall.sent[1])[i]) = CorrIds(sentAsconf)

C4_Witness ==
    /\ lastCall.op = "retransmitAsconf"
    /\ numBuilt > Len(sentAsconf.asconfParams)
    /\ Len(sentAsconf.asconfParams) > 0
    /\ asconfSn > 0

\* the parameter types a request list asks for, in request order
RequestedTypes(req) ==
    LET ty(tok) == IF tok = TokAdd THEN ADD_IP_ADDRESS
                   ELSE IF tok = TokDel THEN DELETE_IP_ADDRESS
                   ELSE IF tok = TokPri THEN SET_PRIMARY_ADDRESS
                   ELSE 0
        all == [i \in 1..Len(req) |-> ty(req[i])]
    IN  SelectSeq(all, LAMBDA t : t # 0)

\* C5: a sendAsconf call that transmits builds exactly one ASCONF chunk
\* with exactly one parameter per requested change type, in request order
\* and of the matching type; the correlation IDs of these parameters are
\* strictly increasing in that order and greater than every ID issued by
\* earlier calls.
C5_OneParamPerRequestedType ==
    [][ (lastCall'.op = "sendAsconf" /\ lastCall'.sent # <<>>)
        => /\ Len(lastCall'.sent) = 1
           /\ Len(AsconfChunksOf(lastCall'.sent[1])) = 1
           /\ LET chunk == AsconfChunksOf(lastCall'.sent[1])[1]
                  ids == CorrIds(chunk)
              IN  /\ \E req \in RequestLists : Join(req) = lastCall'.args[1]
                  /\ \A req \in RequestLists :
                        Join(req) = lastCall'.args[1]
                        => ParamTypes(chunk) = RequestedTypes(req)
                  /\ \A i, j \in DOMAIN ids : i < j => ids[i] < ids[j]
                  /\ \A i \in DOMAIN ids : \A k \in issued : ids[i] > k ]_vars

C5_Witness ==
    /\ SentByAsconf(lastCall)
    /\ Len(sentAsconf.asconfParams) = 2
    /\ numBuilt > 2

\* C6: the ASCONF chunk retransmitAsconf transmits has chunk type ASCONF and
\* the serial number, parameters (order, correlation IDs, addresses) and bit
\* length of the chunk transmitted by the sendAsconf that made the pending
\* request, however often it is repeated; nothing is rebuilt and no
\* correlation ID is consumed.
C6_RetransmitVerbatim ==
    [][ lastCall'.op = "retransmitAsconf"
        => /\ Len(lastCall'.sent) = 1
           /\ Len(AsconfChunksOf(lastCall'.sent[1])) = 1
           /\ AsconfChunksOf(lastCall'.sent[1])[1].chunkType = ASCONF
           /\ Wire(AsconfChunksOf(lastCall'.sent[1])[1]) = Wire(sentAsconf)
           /\ corrIdNum' = corrIdNum
           /\ issued' = issued
           /\ numBuilt' = numBuilt
           /\ asconfSn' = asconfSn
           /\ Load(heap', asconfChunk') = Load(heap, asconfChunk) ]_vars

C6_Witness ==
    /\ lastCall.op = "retransmitAsconf"
    /\ Len(lastCall.sent) = 1
    /\ Len(sentAsconf.asconfParams) = 2
    /\ sentAsconf.serialNumber > 0

\* C7: after a sendAsconf call that transmitted, asconfOutstanding is true
\* and state->asconfChunk is a duplicate of the chunk sent (same serial
\* number and parameters); the duplicate is an object of its own, not the
\* one handed to the transport, so it stays what it was whatever happens to
\* the transmitted message.
C7_RetainedDuplicate ==
    /\ SentByAsconf(lastCall) => asconfOutstanding /\ asconfChunk # NULL
    /\ asconfChunk # NULL
       => /\ asconfChunk \in DOMAIN heap
          /\ asconfChunk \notin wire
          /\ Wire(Load(heap, asconfChunk)) = Wire(sentAsconf)

C7_Witness ==
    /\ lastCall.op = "deliver"
    /\ asconfOutstanding
    /\ asconfChunk \in DOMAIN heap
    /\ Len(heap[asconfChunk].asconfParams) > 0

\* an endpoint has derived its shared key
Derived(e) == peerFirst[e] # {}

\* C8: once both endpoints have run calculateAssocSharedKey, one with
\* own = A, peer = B and the other with own = B, peer = A, their shared keys
\* are identical.
C8_SharedKeySymmetry ==
    (Derived("A") /\ Derived("Z")) => sharedKey["A"] = sharedKey["Z"]

\* the comparison has a winner by the explicit lengths: a non-zero byte
\* among the longer vector's excess high-order positions, or a differing
\* byte in the common part
CommonDiffer(e) ==
    { i \in 0..(sizeKeyVector[e] - 1) :
        i < sizePeerKeyVector[e] /\ keyVector[e][i] # peerKeyVector[e][i] }

PeerExcess(e) ==
    \E i \in sizeKeyVector[e]..(sizePeerKeyVector[e] - 1) : peerKeyVector[e][i] # 0

OwnExcess(e) ==
    \E i \in sizePeerKeyVector[e]..(sizeKeyVector[e] - 1) : keyVector[e][i] # 0

Decided(e) == PeerExcess(e) \/ OwnExcess(e) \/ CommonDiffer(e) # {}

\* whether the own vector wins that comparison
OwnWins(e) ==
    IF PeerExcess(e) THEN FALSE
    ELSE IF OwnExcess(e) THEN TRUE
    ELSE LET top == CHOOSE i \in CommonDiffer(e) : \A j \in CommonDiffer(e) : j <= i
         IN  keyVector[e][top] > peerKeyVector[e][top]

\* C9: compareRandom compares the two vectors over their explicit lengths
\* (sizeKeyVector, sizePeerKeyVector) from the most significant byte down,
\* every position of the common part taking part: a non-zero excess byte
\* of the longer vector makes it win, otherwise the highest differing byte
\* of the common part decides.
C9_ComparesOverExplicitLengths ==
    \A e \in Endpoints :
        (Derived(e) /\ Decided(e)) => peerFirst[e] = {OwnWins(e)}

\* C10: the shared key is sizeKeyVector + sizePeerKeyVector bytes long and
\* is own||peer when compareRandom returned true and peer||own otherwise,
\* every byte of both vectors at its place within its vector.
C10_WinnerFirst ==
    \A e \in Endpoints :
        Derived(e) =>
            LET n == sizeKeyVector[e]
                m == sizePeerKeyVector[e]
            IN  /\ \E uninit \in UninitSizes :
                      peerFirst[e] = {compareRandom(keyVector[e], peerKeyVector[e], uninit)}
                /\ \A i \in 0..(KeyVectorStorage - 1) :
                      sharedKey[e][i] =
                          IF i >= n + m THEN 0
                          ELSE IF peerFirst[e] = {TRUE}
                               THEN (IF i < n THEN keyVector[e][i]
                                              ELSE peerKeyVector[e][i - n])
                               ELSE (IF i < m THEN peerKeyVector[e][i]
                                              ELSE keyVector[e][i - m])

C10_Witness ==
    /\ peerFirst["A"] = {FALSE}
    /\ peerFirst["Z"] = {TRUE}
    /\ sizeKeyVector["A"] = 1
    /\ sizePeerKeyVector["A"] = 2
    /\ keyVector["A"][0] # peerKeyVector["A"][0]

\* the operation that ran last handed a message to the transport
Transmitted(call) ==
    call.op \in {"sendAsconf", "retransmitAsconf", "sendAsconfAck"} /\ call.sent # <<>>

AuthPositions(msg) == { i \in 1..Len(msg.chunks) : msg.chunks[i].chunkType = AUTH }

\* C11: a message sent by sendAsconf, retransmitAsconf or sendAsconfAck holds
\* an authentication chunk exactly when auth and peerAuth are both true; the
\* authentication chunk is then the first chunk, before the ASCONF or
\* ASCONF-ACK chunk; the retained chunk is the ASCONF chunk alone.
C11_AuthGating ==
    /\ Transmitted(lastCall)
       => LET msg == lastCall.sent[1]
          IN  /\ (AuthPositions(msg) # {}) <=> (auth /\ peerAuth)
              /\ AuthPositions(msg) \subseteq {1}
              /\ Len(msg.chunks) = IF auth /\ peerAuth THEN 2 ELSE 1
              /\ msg.chunks[Len(msg.chunks)].chunkType =
                     IF lastCall.op = "sendAsconfAck" THEN ASCONF_ACK ELSE ASCONF
    /\ asconfChunk # NULL => Load(heap, asconfChunk).chunkType = ASCONF

C11_Witness ==
    /\ lastCall.op = "retransmitAsconf"
    /\ auth /\ peerAuth
    /\ Len(lastCall.sent[1].chunks) = 2
    /\ lastCall.sent[1].chunks[1].chunkType = AUTH

\* C12: sendAsconfAck(sn) sends exactly one message to the remote address
\* with exactly one ASCONF-ACK chunk of chunk type ASCONF_ACK and serial
\* number sn, createAsconfAckChunk(sn) returns such a chunk, whatever asconfSn
\* and asconfOutstanding are; neither changes asconfOutstanding, asconfSn,
\* corrIdNum or the retained ASCONF chunk.
C12_AckEchoesSerialNumber ==
    [][ (lastCall'.op \in {"sendAsconfAck", "createAsconfAckChunk"})
        => /\ lastCall'.op = "sendAsconfAck"
              => /\ Len(lastCall'.sent) = 1
                 /\ lastCall'.sent[1].dest = remoteAddr
                 /\ LET acks == SelectSeq(lastCall'.sent[1].chunks,
                                          LAMBDA c : c.chunkType = ASCONF_ACK)
                    IN  /\ Len(acks) = 1
                        /\ acks[1].serialNumber = lastCall'.args[1]
           /\ lastCall'.op = "createAsconfAckChunk"
              => /\ lastCall'.sent = <<>>
                 /\ lastCall'.ret.chunkType = ASCONF_ACK
                 /\ lastCall'.ret.serialNumber = lastCall'.args[1]
           /\ asconfOutstanding' = asconfOutstanding
           /\ asconfSn' = asconfSn
           /\ corrIdNum' = corrIdNum
           /\ asconfChunk' = asconfChunk
           /\ Load(heap', asconfChunk') = Load(heap, asconfChunk) ]_vars

C12_Witness ==
    /\ lastCall.op = "sendAsconfAck"
    /\ lastCall.args # <<asconfSn>>
    /\ asconfOutstanding
    /\ asconfSn > 0

\* C13: the ASCONF chunk of a transmitting sendAsconf carries 0.0.0.0 and the
\* peer verification tag exactly when the local address has level 3, the
\* remote address level 4 and natFriendly is on; otherwise it carries the
\* local address and no verification tag. In NAT mode the ADD_IP and
\* SET_PRIMARY parameters carry 0.0.0.0 too, otherwise the configured address.
C13_NatFriendly ==
    SentByAsconf(lastCall)
    => LET nat == localAddr.level = 3 /\ remoteAddr.level = 4 /\ natFriendly
           chunk == AsconfChunksOf(lastCall.sent[1])[1]
       IN  /\ chunk.addressParam = (IF nat THEN Wildcard ELSE localAddr)
           /\ chunk.peerVTag = (IF nat THEN peerVTag ELSE 0)
           /\ (chunk.addressParam = Wildcard /\ chunk.peerVTag = peerVTag) <=> nat
           /\ \A i \in DOMAIN chunk.asconfParams :
                 chunk.asconfParams[i].parameterType \in {ADD_IP_ADDRESS, SET_PRIMARY_ADDRESS}
                 => chunk.asconfParams[i].addressParam =
                       (IF nat THEN Wildcard ELSE resolve(addAddress))

C13_Witness ==
    /\ SentByAsconf(lastCall)
    /\ localAddr.level = 3 /\ remoteAddr.level = 4 /\ natFriendly
    /\ Range(ParamTypes(sentAsconf)) = {ADD_IP_ADDRESS, SET_PRIMARY_ADDRESS}
    /\ sentAsconf.addressParam = Wildcard

\* C14: createAuthChunk returns a chunk of type AUTH with shared-key index 0,
\* HMAC identifier 1, the ok-flag set, an HMAC array of SHA_LENGTH zero bytes
\* and bit length (SCTP_AUTH_CHUNK_LENGTH + SHA_LENGTH) * 8, whatever the
\* state of the association, and changes nothing of that state.
C14_AuthChunkFixed ==
    [][ lastCall'.op = "createAuthChunk"
        => /\ lastCall'.ret.chunkType = AUTH
           /\ lastCall'.ret.sharedKey = 0
           /\ lastCall'.ret.hMacIdentifier = 1
           /\ lastCall'.ret.hMacOk = TRUE
           /\ DOMAIN lastCall'.ret.hmac = 0..(SHA_LENGTH - 1)
           /\ \A i \in DOMAIN lastCall'.ret.hmac : lastCall'.ret.hmac[i] = 0
           /\ lastCall'.ret.bitLength = (SCTP_AUTH_CHUNK_LENGTH + SHA_LENGTH) * 8
           /\ lastCall'.sent = <<>>
           /\ UNCHANGED <<asconfOutstanding, asconfSn, corrIdNum, asconfChunk,
                          localAddresses, mainLocalAddrs, heap, wire, configVars,
                          keyVars>> ]_vars

C14_Witness ==
    /\ lastCall.op = "createAuthChunk"
    /\ asconfOutstanding
    /\ asconfSn > 0
    /\ asconfChunk # NULL

\* the columns a line supplies
Supplied(cols) == SelectSeq(cols, LAMBDA c : c # <<>>)

Learned(routes) == { r \in routes : r.type = RIP_ROUTE_RTE }

EntryOf(routes, dest) == { r \in routes : r.dest = dest }

\* C16: triggerUpdate does nothing when a triggered update is scheduled (the
\* pending firing time stays), and schedules one between 1s and 5s ahead
\* otherwise, so there is never more than one pending triggered-update
\* event; when the timer has fired the event is gone, and after the regular
\* update, which cancels it, none is pending; no pending event lies in the
\* past.
C16_TriggerUpdateIdempotent ==
    [][ /\ Len(fes') <= 1
        /\ \A i \in DOMAIN fes' : fes'[i] >= now'
        /\ lastCall'.op = "triggerUpdate"
           => IF fes # <<>> THEN fes' = fes
              ELSE /\ Len(fes') = 1
                   /\ fes'[1] - now \in MinTriggerDelay..MaxTriggerDelay
        /\ lastCall'.op = "processTriggeredUpdate"
           => \A i \in DOMAIN fes' : fes'[i] > now'
        /\ lastCall'.op = "processRegularUpdate" => fes' = <<>> ]_vars

C16_Witness ==
    /\ lastCall.op = "triggerUpdate"
    /\ lastCall.ret = "alreadyScheduled"
    /\ Len(fes) = 1

\* C17: a learned route expires 180s after its last update and is purged
\* 120s after that. After a table scan no learned route past its purge
\* deadline is left, and a route past its expiry deadline but not its purge
\* deadline is in the table with metric 16; checkRoute marks the route it
\* expires as changed and triggers an update, leaves a route before its
\* expiry deadline as it is, and returns no route past a deadline.
C17_ExpiryOrdering ==
    [][ (lastCall'.op \in {"checkRoute", "processRequest", "processTriggeredUpdate",
                           "processRegularUpdate"})
        => /\ \A r \in Learned(ripRoutes) :
                 /\ now' >= r.lastUpdateTime + RouteExpiryTime + RoutePurgeTime
                    => EntryOf(ripRoutes', r.dest) = {}
                 /\ (/\ now' >= r.lastUpdateTime + RouteExpiryTime
                     /\ now' < r.lastUpdateTime + RouteExpiryTime + RoutePurgeTime)
                    => /\ EntryOf(ripRoutes', r.dest) # {}
                       /\ \A x \in EntryOf(ripRoutes', r.dest) :
                             /\ x.metric = RIP_INFINITE_METRIC
                             /\ x.lastUpdateTime = r.lastUpdateTime
                             /\ (lastCall'.op = "checkRoute" /\ r.metric # RIP_INFINITE_METRIC)
                                => (x.changed /\ fes' # <<>>)
                 /\ (lastCall'.op = "checkRoute" /\ now' < r.lastUpdateTime + RouteExpiryTime)
                    => (r \in ripRoutes' /\ r \in lastCall'.ret)
           /\ lastCall'.op = "checkRoute"
              => \A r \in Learned(lastCall'.ret) :
                    now' < r.lastUpdateTime + RouteExpiryTime + RoutePurgeTime ]_vars

C17_Witness ==
    /\ lastCall.op = "checkRoute"
    /\ \E r \in Learned(ripRoutes) :
          /\ now >= r.lastUpdateTime + RouteExpiryTime
          /\ now < r.lastUpdateTime + RouteExpiryTime + RoutePurgeTime
          /\ r.metric = RIP_INFINITE_METRIC
          /\ r.changed
          /\ r \notin lastCall.ret
    /\ fes # <<>>

\* C18: an accepted response from the neighbour a route was learned from,
\* advertising metric 16 for its network before the purge deadline, leaves
\* the route in the table with metric 16 and the changed flag set, and an
\* update is triggered; a learned route leaves the table only at or after
\* its purge deadline; an accepted response with a finite candidate metric
\* that arrives before the purge deadline of an invalid route restores it.
C18_InvalidatedNotDeleted ==
    [][ /\ \A r \in Learned(ripRoutes) :
              EntryOf(ripRoutes', r.dest) = {}
              => now' >= r.lastUpdateTime + RouteExpiryTime + RoutePurgeTime
        /\ (lastCall'.op = "processResponse" /\ lastCall'.ret = "accepted")
           => LET ie == lastCall'.args[1]
                  from == lastCall'.args[2]
                  entry == lastCall'.args[3]
              IN  \A r \in Learned(ripRoutes) :
                     (r.dest = entry.dest
                        /\ now < r.lastUpdateTime + RouteExpiryTime + RoutePurgeTime)
                     => /\ (entry.metric = RIP_INFINITE_METRIC /\ r.from = from)
                           => /\ \E x \in ripRoutes' :
                                    /\ x.dest = r.dest
                                    /\ x.metric = RIP_INFINITE_METRIC
                                    /\ x.changed
                              /\ fes' # <<>>
                        /\ (r.metric = RIP_INFINITE_METRIC
                              /\ entry.metric + ripInterfaces[ie].metric < RIP_INFINITE_METRIC)
                           => \E x \in ripRoutes' :
                                 /\ x.dest = r.dest
                                 /\ x.metric = entry.metric + ripInterfaces[ie].metric
                                 /\ x.lastUpdateTime = now ]_vars

C18_Witness ==
    /\ lastCall.op = "processResponse"
    /\ lastCall.ret = "accepted"
    /\ lastCall.args[3].metric = RIP_INFINITE_METRIC
    /\ \E r \in Learned(ripRoutes) :
          /\ r.from = lastCall.args[2]
          /\ r.metric = RIP_INFINITE_METRIC
          /\ r.changed
          /\ now < r.lastUpdateTime + RouteExpiryTime
          /\ now > r.lastUpdateTime

\* C19: in every response built for interface I, a route learned over I is
\* advertised with metric 16 when I is in poisoned-reverse mode, is left out
\* when I is in split-horizon mode, and is advertised with its stored metric
\* when split horizon is off (a response with all routes has the entry, one
\* with the changed routes may not).
C19_SplitHorizon ==
    (lastCall.op \in {"processRequest", "processTriggeredUpdate", "processRegularUpdate"})
    => \A i \in DOMAIN lastCall.sent :
          LET pkt == lastCall.sent[i]
              mode == ripInterfaces[pkt.ie].splitHorizonMode
          IN  \A r \in Learned(ripRoutes) :
                 r.ie = pkt.ie
                 => LET adv == { e \in pkt.entries : e.dest = r.dest }
                    IN  /\ mode = SPLIT_HORIZON => adv = {}
                        /\ mode = SPLIT_HORIZON_POISONED_REVERSE
                           => /\ \A e \in adv : e.metric = RIP_INFINITE_METRIC
                              /\ ~pkt.changedOnly => adv # {}
                        /\ mode = NO_SPLIT_HORIZON
                           => /\ \A e \in adv : e.metric = r.metric
                              /\ ~pkt.changedOnly => adv # {}

C19_Witness ==
    /\ lastCall.op = "processRegularUpdate"
    /\ ripInterfaces["eth0"].splitHorizonMode = SPLIT_HORIZON_POISONED_REVERSE
    /\ \E r \in Learned(ripRoutes) : r.ie = "eth0" /\ r.metric = 2
    /\ [dest |-> LearnedNet, metric |-> RIP_INFINITE_METRIC] \in lastCall.sent[1].entries
    /\ [dest |-> LearnedNet, metric |-> 2] \in lastCall.sent[2].entries

\* C20: no route entry ever has a metric above 16; the metric processResponse
\* stores is the advertised metric plus the metric of the incoming
\* interface, 16 at most, with the sender as next hop (advertised 1 over an
\* interface of metric 1: stored 2); an entry with an advertised metric above
\* 16 is rejected and the table stays as it is.
C20_MetricBound ==
    [][ /\ \A r \in ripRoutes' : r.metric <= RIP_INFINITE_METRIC
        /\ lastCall'.op = "processResponse"
           => LET ie == lastCall'.args[1]
                  from == lastCall'.args[2]
                  entry == lastCall'.args[3]
                  sum == entry.metric + ripInterfaces[ie].metric
                  candidate == IF sum > RIP_INFINITE_METRIC THEN RIP_INFINITE_METRIC ELSE sum
              IN  /\ entry.metric > RIP_INFINITE_METRIC
                     => /\ lastCall'.ret = "badResponse"
                        /\ ripRoutes' = ripRoutes
                        /\ fes' = fes
                  /\ \A x \in ripRoutes' \ ripRoutes :
                        /\ x.dest = entry.dest
                        /\ x.metric = candidate
                        /\ candidate < RIP_INFINITE_METRIC
                           => (x.nextHop = from /\ x.lastUpdateTime = now)
                  /\ (lastCall'.ret = "accepted" /\ EntryOf(ripRoutes, entry.dest) = {}
                        /\ candidate < RIP_INFINITE_METRIC)
                     => \E x \in ripRoutes' :
                           /\ x.dest = entry.dest
                           /\ x.metric = candidate
                           /\ x.nextHop = from
                           /\ x.lastUpdateTime + RouteExpiryTime = now + RouteExpiryTime ]_vars

C20_Witness ==
    /\ lastCall.op = "processResponse"
    /\ lastCall.args = <<"eth0", Neighbor1, [dest |-> LearnedNet, metric |-> 1]>>
    /\ \E r \in ripRoutes :
          /\ r.dest = LearnedNet
          /\ r.metric = 2
          /\ r.nextHop = Neighbor1
          /\ r.lastUpdateTime = now

\* the operations that send a message of the ASCONF exchange
Senders == {"sendAsconf", "retransmitAsconf", "sendAsconfAck"}

\* C21: whenever asconfOutstanding is true a retained ASCONF chunk exists
\* (state->asconfChunk points to a live object) and its serial number is
\* that of the last ASCONF chunk sendAsconf transmitted; retransmitAsconf
\* leaves asconfOutstanding, asconfSn, corrIdNum and the retained chunk as
\* they were.
C21_RetransmissionDefined ==
    /\ [](asconfOutstanding
          => /\ asconfChunk # NULL
             /\ asconfChunk \in DOMAIN heap
             /\ heap[asconfChunk].chunkType = ASCONF
             /\ heap[asconfChunk].serialNumber = sentAsconf.serialNumber)
    /\ [][ lastCall'.op = "retransmitAsconf"
           => /\ asconfOutstanding' = asconfOutstanding
              /\ asconfSn' = asconfSn
              /\ corrIdNum' = corrIdNum
              /\ asconfChunk' = asconfChunk
              /\ asconfChunk \in DOMAIN heap
              /\ heap'[asconfChunk'] = heap[asconfChunk] ]_vars

C21_Witness ==
    /\ asconfOutstanding
    /\ lastCall.op = "retransmitAsconf"
    /\ wire # {}
    /\ asconfSn = 1
    /\ asconfChunk \in DOMAIN heap
    /\ heap[asconfChunk].serialNumber = 1
    /\ Len(heap[asconfChunk].asconfParams) = 1

\* C22: the chunk a transmitting sendAsconf builds carries the asconfSn of
\* the moment of the call; sendAsconf, retransmitAsconf and sendAsconfAck
\* leave asconfSn unchanged. So asconfSn changes only in a step, of none of
\* these three, that clears asconfOutstanding, and a request carries a
\* serial number other than the one before it only if asconfSn was changed
\* since that one was sent.
C22_SenderKeepsSerialNumber ==
    /\ [][ lastCall'.op \in Senders => asconfSn' = asconfSn ]_vars
    /\ [][ SentByAsconf(lastCall')
           => /\ AsconfChunksOf(lastCall'.sent[1])[1].serialNumber = asconfSn
              /\ sentAsconf'.serialNumber = asconfSn
              /\ heap'[asconfChunk'].serialNumber = asconfSn ]_vars
    /\ [][ asconfSn' # asconfSn
           => /\ lastCall'.op \notin Senders
              /\ asconfOutstanding
              /\ ~asconfOutstanding' ]_vars
    /\ [][ (SentByAsconf(lastCall') /\ sentAsconf.name # Garbage.name
                                     /\ sentAsconf'.serialNumber # sentAsconf.serialNumber)
           => asconfSn # sentAsconf.serialNumber ]_vars
    /\ [](asconfOutstanding => asconfSn = sentAsconf.serialNumber)

C22_Witness ==
    /\ SentByAsconf(lastCall)
    /\ asconfSn = 0
    /\ sentAsconf.serialNumber = 0
    /\ numBuilt > Len(sentAsconf.asconfParams)

\* the tokens of a request list that name a change type
Recognised(req) ==
    SelectSeq(req, LAMBDA tok : tok \in {TokAdd, TokDel, TokPri})

\* C23: a sendAsconf call made while asconfOutstanding is false advances
\* corrIdNum by exactly the number of tokens of its list that are
\* ADD_IP_ADDRESS, DELETE_IP_ADDRESS or SET_PRIMARY_ADDRESS, and builds as
\* many parameters and uses as many new correlation IDs; any other token
\* adds no parameter and takes no ID. The chunk is transmitted all the same
\* (also with no parameter at all), retained, and asconfOutstanding is true
\* afterwards.
C23_UnrecognisedSkipped ==
    [][ (~asconfOutstanding /\ lastCall'.op = "sendAsconf")
        => /\ Len(lastCall'.sent) = 1
           /\ Len(AsconfChunksOf(lastCall'.sent[1])) = 1
           /\ asconfOutstanding'
           /\ asconfChunk' \in DOMAIN heap'
           /\ Wire(heap'[asconfChunk']) = Wire(AsconfChunksOf(lastCall'.sent[1])[1])
           /\ \A req \in RequestLists :
                 Join(req) = lastCall'.args[1]
                 => LET n == Len(Recognised(req))
                    IN  /\ corrIdNum' = corrIdNum + n
                        /\ Len(AsconfChunksOf(lastCall'.sent[1])[1].asconfParams) = n
                        /\ numBuilt' = numBuilt + n
                        /\ Cardinality(issued' \ issued) = n ]_vars

C23_Witness ==
    /\ SentByAsconf(lastCall)
    /\ lastCall.args[1] = Join(<<TokDel, TokEmpty, TokOne, TokPri>>)
    /\ Len(sentAsconf.asconfParams) = 2
    /\ corrIdNum = 3
    /\ asconfOutstanding

====
